---- MODULE Spec2Model ----
(***************************************************************************)
(* Model of xphyle/paths.py: the temporary directory builder (TempDir),    *)
(* its path descriptors (TempPathDescriptor) and the filesystem calls they *)
(* make.                                                                   *)
(*                                                                         *)
(* A path is a sequence of segments; an absolute path starts with the      *)
(* segment "/".  The filesystem is a function from the canonical absolute  *)
(* paths that exist to their nodes.  The process is an unprivileged user,  *)
(* so the owner permission bits decide what it may do.                     *)
(***************************************************************************)
EXTENDS Integers, Sequences, FiniteSets, TLC

VARIABLES
    fs,      \* the filesystem: canonical absolute path -> node
    descs,   \* the TempPathDescriptor objects made so far
    td,      \* the TempDir object: path, mode, paths
    phase,   \* where the caller is in the TempDir's life
    err,     \* the exception the last call raised, "ok" when none
    call,    \* the last call: its arguments, events and return value
    hist,    \* the events of all calls so far
    cnt,     \* temporary names handed out
    ncalls,  \* calls made on the TempDir
    allok,   \* no make_path or make_paths call has raised so far
    executable_cache  \* the module's cache: executable name -> path found

vars == <<fs, descs, td, phase, err, call, hist, cnt, ncalls, allok, executable_cache>>

(***************************************************************************)
(* Bounds of the model.                                                    *)
(***************************************************************************)
MaxDescs == 2
MaxCalls == 2
MaxBatch == 2
MaxChain == 3
MaxOps == 4

(***************************************************************************)
(* Python values.                                                          *)
(***************************************************************************)
None == <<"<None>">>

S_IREAD == 256
S_IWRITE == 128
S_IEXEC == 64
DirCreateBits == 448
FileCreateBits == 384

HasBit(n, b) == (n \div b) % 2 = 1

BitOr(a, b) ==
    LET bit(k) == IF HasBit(a, k) \/ HasBit(b, k) THEN k ELSE 0
    IN  bit(S_IREAD) + bit(S_IWRITE) + bit(S_IEXEC)

R_OK == 4
W_OK == 2
X_OK == 1

\* mode character -> <<access test constant, permission bit>>
ACCESS == [r |-> <<R_OK, S_IREAD>>, w |-> <<W_OK, S_IWRITE>>,
           a |-> <<W_OK, S_IWRITE>>, x |-> <<X_OK, S_IEXEC>>]

(***************************************************************************)
(* os.path                                                                 *)
(***************************************************************************)
IsAbs(p) == Len(p) > 0 /\ p[1] = "/"

join(a, b) == IF IsAbs(b) THEN b ELSE a \o b

basename(p) == <<p[Len(p)]>>

Parent(p) == IF Len(p) <= 1 THEN p ELSE SubSeq(p, 1, Len(p) - 1)

IsPrefix(r, p) == Len(r) <= Len(p) /\ SubSeq(p, 1, Len(r)) = r

\* os.path.normpath on an absolute path: ".." removes the segment before it
RECURSIVE normpath(_, _)
normpath(done, rest) ==
    IF rest = <<>> THEN done
    ELSE IF Head(rest) = ".." THEN normpath(Parent(done), Tail(rest))
    ELSE normpath(done \o <<Head(rest)>>, Tail(rest))

Cwd == <<"/", "tmp">>

\* the placeholders of the standard streams
STDOUT == <<"-">>

STDERR == <<"_">>

abspath(p) ==
    IF p \in {STDOUT, STDERR} THEN p
    ELSE LET q == join(Cwd, p) IN normpath(<<"/">>, Tail(q))

dirname(p) == IF IsAbs(p) THEN Parent(p) ELSE SubSeq(p, 1, Len(p) - 1)

\* the first character of a path segment
FirstChar(s) ==
    CASE s = "tmp" -> "t"
      [] s = "tmp_0" -> "t"
      [] s = "tmp_1" -> "t"
      [] s = "a" -> "a"
      [] s = "b" -> "b"
      [] s = "x" -> "x"
      [] OTHER -> "."

\* path[1] of the string of an absolute path: the first character after "/"
StrIndex1(p) == <<FirstChar(p[2])>>

(***************************************************************************)
(* The filesystem.                                                         *)
(***************************************************************************)
Node(kind, content, perm) == [kind |-> kind, content |-> content, perm |-> perm]

Put(f, p, n) == [q \in DOMAIN f \cup {p} |-> IF q = p THEN n ELSE f[q]]

Remove(f, ps) == [q \in DOMAIN f \ ps |-> f[q]]

Under(f, p) == {q \in DOMAIN f : IsPrefix(p, q)}

\* path resolution by the kernel: every directory walked through must exist
\* and be searchable; the last component may be missing
RECURSIVE Walk(_, _, _)
Walk(f, cur, rest) ==
    IF rest = <<>> THEN [err |-> "ok", path |-> cur]
    ELSE IF cur \notin DOMAIN f THEN [err |-> "FileNotFoundError", path |-> cur]
    ELSE IF f[cur].kind # "d" THEN [err |-> "NotADirectoryError", path |-> cur]
    ELSE IF ~HasBit(f[cur].perm, S_IEXEC) THEN [err |-> "PermissionError", path |-> cur]
    ELSE Walk(f, IF Head(rest) = ".." THEN Parent(cur) ELSE cur \o <<Head(rest)>>,
              Tail(rest))

Resolve(f, p) == Walk(f, <<"/">>, Tail(p))

FsResult(f, e) == [fs |-> f, err |-> e]

\* creating the entry a resolved path r names: the checks mkdir, mkfifo and
\* open(..., O_CREAT) share
NewEntryAt(f, r, node) ==
    IF r.err # "ok" THEN FsResult(f, r.err)
    ELSE IF r.path \in DOMAIN f THEN FsResult(f, "FileExistsError")
    ELSE IF Parent(r.path) \notin DOMAIN f THEN FsResult(f, "FileNotFoundError")
    ELSE IF f[Parent(r.path)].kind # "d" THEN FsResult(f, "NotADirectoryError")
    ELSE IF ~HasBit(f[Parent(r.path)].perm, S_IWRITE) THEN FsResult(f, "PermissionError")
    ELSE FsResult(Put(f, r.path, node), "ok")

NewEntry(f, p, node) == NewEntryAt(f, Resolve(f, p), node)

os_mkdir(f, p) == NewEntry(f, p, Node("d", "", DirCreateBits))

os_mkfifo(f, p) == NewEntry(f, p, Node("p", "", FileCreateBits))

OpenWriteAt(f, r, text) ==
    IF r.err # "ok" THEN FsResult(f, r.err)
    ELSE IF r.path \notin DOMAIN f THEN NewEntryAt(f, r, Node("f", text, FileCreateBits))
    ELSE IF f[r.path].kind = "d" THEN FsResult(f, "IsADirectoryError")
    ELSE IF ~HasBit(f[r.path].perm, S_IWRITE) THEN FsResult(f, "PermissionError")
    ELSE IF f[r.path].kind = "p" THEN FsResult(f, "Blocked")
    ELSE FsResult(Put(f, r.path, Node("f", text, f[r.path].perm)), "ok")

\* with open(p, 'wt') as fh: fh.write(text); opening a named pipe nobody
\* reads blocks
open_write(f, p, text) == OpenWriteAt(f, Resolve(f, p), text)

ChmodAt(f, r, bits) ==
    IF r.err # "ok" THEN FsResult(f, r.err)
    ELSE IF r.path \notin DOMAIN f THEN FsResult(f, "FileNotFoundError")
    ELSE FsResult(Put(f, r.path, Node(f[r.path].kind, f[r.path].content, bits)), "ok")

os_chmod(f, p, bits) == ChmodAt(f, Resolve(f, p), bits)

FullAccess(f, q) ==
    HasBit(f[q].perm, S_IREAD) /\ HasBit(f[q].perm, S_IWRITE) /\ HasBit(f[q].perm, S_IEXEC)

RmtreeAt(f, r) ==
    IF r.err # "ok" THEN FsResult(f, r.err)
    ELSE IF r.path \notin DOMAIN f THEN FsResult(f, "FileNotFoundError")
    ELSE IF f[r.path].kind # "d" THEN FsResult(f, "NotADirectoryError")
    ELSE IF \E q \in Under(f, r.path) : f[q].kind = "d" /\ ~FullAccess(f, q)
         THEN FsResult(f, "PermissionError")
    ELSE IF ~HasBit(f[Parent(r.path)].perm, S_IWRITE) THEN FsResult(f, "PermissionError")
    ELSE FsResult(Remove(f, Under(f, r.path)), "ok")

\* shutil.rmtree: every directory of the tree must be readable, searchable
\* and writable for its entries to be removed
rmtree(f, p) == RmtreeAt(f, Resolve(f, p))

\* the entry a path names, as the kernel finds it from the working directory
Lookup(f, p) == Resolve(f, join(Cwd, p))

exists(f, p) == p # <<>> /\ Lookup(f, p).err = "ok" /\ Lookup(f, p).path \in DOMAIN f

isfile(f, p) == exists(f, p) /\ f[Lookup(f, p).path].kind = "f"

isdir(f, p) == exists(f, p) /\ f[Lookup(f, p).path].kind = "d"

\* os.access(path, access): each bit of access asks for a permission bit
os_access(f, p, access) ==
    /\ exists(f, p)
    /\ HasBit(access, R_OK) => HasBit(f[Lookup(f, p).path].perm, S_IREAD)
    /\ HasBit(access, W_OK) => HasBit(f[Lookup(f, p).path].perm, S_IWRITE)
    /\ HasBit(access, X_OK) => HasBit(f[Lookup(f, p).path].perm, S_IEXEC)

MkdirAfter(r, p) == IF r.err # "ok" THEN r ELSE os_mkdir(r.fs, p)

\* os.makedirs(p): the missing ancestors first, then the directory itself
RECURSIVE os_makedirs(_, _)
os_makedirs(f, p) ==
    IF p = <<>> THEN FsResult(f, "FileNotFoundError")
    ELSE MkdirAfter(IF Len(p) > 1 /\ ~exists(f, Parent(p))
                    THEN os_makedirs(f, Parent(p)) ELSE FsResult(f, "ok"), p)

(***************************************************************************)
(* tempfile                                                                *)
(***************************************************************************)
GenNames == <<"tmp_0", "tmp_1", "tmp_2", "tmp_3", "tmp_4", "tmp_5", "tmp_6", "tmp_7">>

\* the name tempfile picks: prefix, a name no entry of the directory has, suffix
GenName(prefix, suffix, k) == prefix \o GenNames[k + 1] \o suffix

TempRoot == <<"/", "tmp">>

(***************************************************************************)
(* The interpreter state a call works on: the filesystem, the descriptor   *)
(* objects, the TempDir object, the events of the call so far, the         *)
(* exception raised ("ok" when none), the values returned and the number   *)
(* of temporary names handed out.                                          *)
(***************************************************************************)
Raise(m, e) == [m EXCEPT !.err = e]

\* the next statement runs unless an exception is propagating
Try(m, Stmt(_)) == IF m.err # "ok" THEN m ELSE Stmt(m)

\* an event of the call: what was done, to which descriptor (0 for none), on
\* which path and with which mode string
LogEvent(m, ev, d, path, mode) ==
    [m EXCEPT !.log = Append(@, [ev |-> ev, d |-> d, path |-> path, mode |-> mode])]

Log(m, ev, d, path) == LogEvent(m, ev, d, path, None)

WithFs(m, r) == [m EXCEPT !.fs = r.fs, !.err = r.err]

Falsy(v) == v = None \/ v = <<>>

\* a temporary entry with a fresh name in dir; ret is its path
MakeTemp(m, path, node, ev) ==
    Try(WithFs([m EXCEPT !.cnt = @ + 1], NewEntry(m.fs, path, node)),
        LAMBDA x : [Log(x, ev, 0, path) EXCEPT !.ret = path])

\* tempfile.mkdtemp(prefix, suffix, dir): returns the path
mkdtemp(m, prefix, suffix, dir) ==
    MakeTemp(m, join(dir, <<GenName(prefix, suffix, m.cnt)>>),
             Node("d", "", DirCreateBits), "mkdtemp")

\* tempfile.mkstemp(prefix, suffix, dir): returns (fd, path); ret is the path
mkstemp(m, prefix, suffix, dir) ==
    MakeTemp(m, join(dir, <<GenName(prefix, suffix, m.cnt)>>),
             Node("f", "", FileCreateBits), "mkstemp")

\* the permission bits of a mode string
RECURSIVE mode_flag(_, _)
mode_flag(mode, flag) ==
    IF mode = <<>> THEN flag
    ELSE mode_flag(Tail(mode), BitOr(flag, ACCESS[Head(mode)][2]))

\* a variant that changes the mode before it has read every character
set_access_before_validation(m, path, mode) ==
    IF mode = None THEN Raise(m, "TypeError")
    ELSE IF mode # <<>> /\ Head(mode) \notin DOMAIN ACCESS
         THEN Raise(m, "ValueError")
    ELSE IF \E i \in 1..Len(mode) : mode[i] \notin DOMAIN ACCESS
         THEN Raise([m EXCEPT !.fs = os_chmod(m.fs, path, ACCESS[Head(mode)][2]).fs],
                    "ValueError")
    ELSE Try(WithFs(m, os_chmod(m.fs, path, mode_flag(mode, 0))),
             LAMBDA x : [Log(x, "chmod", 0, path) EXCEPT !.flag = mode_flag(mode, 0)])

\* set_access(path, mode), the module's function
set_access(m, path, mode) ==
    IF mode = None THEN Raise(m, "TypeError")
    ELSE IF \E i \in 1..Len(mode) : mode[i] \notin DOMAIN ACCESS
         THEN Raise(m, "ValueError")
    ELSE Try(WithFs(m, os_chmod(m.fs, path, mode_flag(mode, 0))),
             LAMBDA x : [Log(x, "chmod", 0, path) EXCEPT !.flag = mode_flag(mode, 0)])

\* an access argument: a mode string, an os.*_OK flag, or None
AccessStr(mode) == [kind |-> "str", mode |-> mode, flag |-> 0]

AccessInt(flag) == [kind |-> "int", mode |-> <<>>, flag |-> flag]

AccessNone == [kind |-> "none", mode |-> <<>>, flag |-> 0]

\* the keys of ACCESS in the order the dictionary holds them
AccessOrder == <<"r", "w", "a", "x">>

InMode(c, mode) == \E i \in 1..Len(mode) : mode[i] = c

FirstAccess(mode) == CHOOSE i \in 1..Len(AccessOrder) :
    /\ InMode(AccessOrder[i], mode)
    /\ \A j \in 1..(i - 1) : ~InMode(AccessOrder[j], mode)

\* get_access(mode): the flag of the first key of ACCESS that occurs in mode
get_access(m, mode) ==
    IF \E i \in 1..Len(AccessOrder) : InMode(AccessOrder[i], mode)
    THEN [m EXCEPT !.flag = ACCESS[AccessOrder[FirstAccess(mode)]][1]]
    ELSE Raise(m, "ValueError")

\* IOError(errno, message, filename): the OSError subclass of the errno
IOError(m, e, filename) == [m EXCEPT !.err = e, !.filename = filename]

\* split_path(path)[1]; the names of the model have no extension
filename(path) ==
    IF abspath(path) = <<"/">> THEN <<>> ELSE basename(abspath(path))

\* the tests of check_access on an access flag
SentinelDenied(path, access) ==
    \/ path = STDOUT /\ access \notin {R_OK, W_OK}
    \/ path = STDERR /\ access # W_OK

\* a variant that holds both tokens to the rule of the output stream
test_access_tokens_alike(m, path) ==
    IF path \in {STDOUT, STDERR}
    THEN IF m.flag \notin {R_OK, W_OK}
         THEN IOError(m, "PermissionError", path)
         ELSE [m EXCEPT !.ret = filename(path)]
    ELSE IF ~os_access(m.fs, path, m.flag)
         THEN IOError(Log(m, "os.access", 0, path), "PermissionError", path)
         ELSE [Log(m, "os.access", 0, path) EXCEPT !.ret = filename(path)]

TestAccess(m, path) ==
    IF path \in {STDOUT, STDERR}
    THEN IF SentinelDenied(path, m.flag)
         THEN IOError(m, "PermissionError", path)
         ELSE [m EXCEPT !.ret = filename(path)]
    ELSE IF ~os_access(m.fs, path, m.flag)
         THEN IOError(Log(m, "os.access", 0, path), "PermissionError", path)
         ELSE [Log(m, "os.access", 0, path) EXCEPT !.ret = filename(path)]

check_access(m, path, access) ==
    Try(IF access.kind = "str" THEN get_access(m, access.mode)
        ELSE [m EXCEPT !.flag = access.flag],
        LAMBDA x : TestAccess(x, path))

ResolveExisting(m, path) ==
    IF ~exists(m.fs, path)
    THEN IOError(Log(m, "os.path.exists", 0, path), "FileNotFoundError", path)
    ELSE [Log(m, "os.path.exists", 0, path) EXCEPT !.ret = path]

\* resolve_path(path, parent); ret is the absolute path
resolve_path(m, path, parent) ==
    IF path \in {STDOUT, STDERR} THEN [m EXCEPT !.ret = path]
    ELSE IF ~Falsy(parent) THEN ResolveExisting(m, join(abspath(parent), path))
    ELSE ResolveExisting(m, abspath(path))

\* the type test of check_path
CheckType(m, path, ptype) ==
    IF ptype = "f" /\ ~(path \in {STDOUT, STDERR} \/ isfile(m.fs, path))
    THEN IOError(m, "IsADirectoryError", path)
    ELSE IF ptype = "d" /\ ~isdir(m.fs, path)
    THEN IOError(m, "NotADirectoryError", path)
    ELSE m

CheckPathAccess(m, path, access) ==
    IF access.kind = "none" THEN m
    ELSE Try(check_access(m, path, access), LAMBDA x : [x EXCEPT !.ret = path])

\* check_path(path, ptype, access); ptype "" stands for None
check_path(m, path, ptype, access) ==
    Try(resolve_path(m, path, None),
        LAMBDA x : Try(CheckType(x, x.ret, ptype),
                       LAMBDA y : CheckPathAccess(y, y.ret, access)))

check_readable_file(m, path) == check_path(m, path, "f", AccessStr(<<"r">>))

\* the branch of check_writeable_file for a path that does not exist
CheckParent(m, path, dirpath) ==
    Try(IF exists(m.fs, dirpath)
        THEN check_path(m, dirpath, "d", AccessStr(<<"w">>))
        ELSE Log(WithFs(m, os_makedirs(m.fs, dirpath)), "os.makedirs", 0, dirpath),
        LAMBDA x : [x EXCEPT !.ret = path])

\* check_writeable_file(path, mkdirs): mkdirs is not read by the body
check_writeable_file(m, path, mkdirs) ==
    IF exists(m.fs, path) THEN check_path(m, path, "f", AccessStr(<<"w">>))
    ELSE CheckParent(m, abspath(path), dirname(abspath(path)))

\* the exceptions "except IOError" catches: OSError and its subclasses
OSErrors == {"FileNotFoundError", "IsADirectoryError", "NotADirectoryError",
             "PermissionError", "FileExistsError"}

\* a variant that catches every exception
except_every_exception(m) ==
    IF m.err # "ok" THEN [m EXCEPT !.err = "ok", !.ret = None, !.filename = None]
    ELSE m

\* try: return check(...) except IOError: return None
ExceptIOError(m) ==
    IF m.err \in OSErrors
    THEN [m EXCEPT !.err = "ok", !.ret = None, !.filename = None]
    ELSE m

safe_check_path(m, path, ptype, access) ==
    ExceptIOError(check_path(m, path, ptype, access))

safe_check_readable_file(m, path) == ExceptIOError(check_readable_file(m, path))

safe_check_writeable_file(m, path) ==
    ExceptIOError(check_writeable_file(m, path, TRUE))

\* os.get_exec_path(): the directories of PATH
ExecPath == << <<"/", "bin">> >>

\* check_executable(fpath) of get_executable_path: a bare except gives None
ExceptAny(m) ==
    IF m.err # "ok" THEN [m EXCEPT !.err = "ok", !.ret = None, !.filename = None]
    ELSE m

check_executable(m, fpath) ==
    ExceptAny(check_path(m, fpath, "f", AccessStr(<<"x">>)))

\* the loop over os.get_exec_path(), left at the first directory that has it
RECURSIVE SearchExecPath(_, _, _)
SearchExecPath(m, executable, i) ==
    IF i > Len(ExecPath) \/ ~Falsy(m.ret) THEN m
    ELSE SearchExecPath(check_executable(m, join(ExecPath[i], executable)),
                        executable, i + 1)

StoreExecutable(m, exe_name) ==
    [m EXCEPT !.cache = [k \in DOMAIN @ \cup {exe_name} |->
                            IF k = exe_name THEN m.ret ELSE @[k]]]

\* a variant whose cache is keyed by the whole argument
get_executable_path_by_argument(m, executable) ==
    IF executable \in DOMAIN m.cache
    THEN [m EXCEPT !.ret = m.cache[executable]]
    ELSE StoreExecutable(SearchExecPath(check_executable(m, executable),
                                        executable, 1),
                         executable)

\* get_executable_path(executable); ret is the path or None
get_executable_path(m, executable) ==
    IF basename(executable) \in DOMAIN m.cache
    THEN [m EXCEPT !.ret = m.cache[basename(executable)]]
    ELSE StoreExecutable(SearchExecPath(check_executable(m, executable),
                                        executable, 1),
                         basename(executable))

(***************************************************************************)
(* TempPathDescriptor                                                      *)
(***************************************************************************)
\* the attributes, properties and methods a TempPathDescriptor instance has
DescriptorAttrs ==
    {"path_type", "subdir", "name", "prefix", "suffix", "mode", "contents",
     "root", "_abspath", "_relpath", "exists", "absolute_path",
     "relative_path", "set_root", "set_access", "create", "_init_path"}

\* a constructor that keeps the mode it is given, whatever the parent's
init_without_inheritance(ds, name, subdir, mode, suffix, prefix, contents, path_type) ==
    [path_type |-> path_type, subdir |-> subdir, name |-> name,
     prefix |-> prefix, suffix |-> suffix, mode |-> mode,
     contents |-> contents, root |-> 0, _abspath |-> None, _relpath |-> None]

\* TempPathDescriptor.__init__; subdir is the index of a descriptor, 0 for None
TempPathDescriptor_init(ds, name, subdir, mode, suffix, prefix, contents, path_type) ==
    [path_type |-> path_type, subdir |-> subdir, name |-> name,
     prefix |-> prefix, suffix |-> suffix,
     mode |-> IF Falsy(mode) /\ subdir # 0 THEN ds[subdir].mode ELSE mode,
     contents |-> contents, root |-> 0, _abspath |-> None, _relpath |-> None]

\* the ValueError of TempPathDescriptor.__init__
ContentsInvalid(contents, path_type) == contents # "" /\ path_type # "f"

\* TempPathDescriptor(...): the new object is the last of descs
TempPathDescriptor_new(m, name, subdir, mode, suffix, prefix, contents, path_type) ==
    IF ContentsInvalid(contents, path_type) THEN Raise(m, "ValueError")
    ELSE LogEvent([m EXCEPT !.descs = Append(@,
                      TempPathDescriptor_init(m.descs, name, subdir, mode, suffix,
                                              prefix, contents, path_type))],
                  "init", Len(m.descs) + 1, None, mode)

\* lines 340-343 once the path of the parent is known (rel is None without a
\* parent descriptor)
SetPaths(m, d, rel) ==
    IF m.descs[d].name = None \/ rel = None THEN Raise(m, "TypeError")
    ELSE [m EXCEPT !.descs[d]._relpath = rel,
                   !.descs[d]._abspath = join(m.td.path, rel)]

\* _init_path assigning the relative path before it looks at the root
RECURSIVE init_path_assigning_first(_, _)
init_path_assigning_first(m, d) ==
    IF m.descs[d].root = 0
    THEN Raise([m EXCEPT !.descs[d]._relpath = m.descs[d].name], "Exception")
    ELSE IF m.descs[d].subdir # 0
         THEN Try(IF m.descs[m.descs[d].subdir]._relpath = None
                  THEN init_path_assigning_first(m, m.descs[d].subdir) ELSE m,
                  LAMBDA x : SetPaths(x, d, join(x.descs[x.descs[d].subdir]._relpath,
                                                 x.descs[d].name)))
    ELSE SetPaths(m, d, m.descs[d].name)

RECURSIVE _init_path(_, _)
_init_path(m, d) ==
    IF m.descs[d].root = 0 THEN Raise(m, "Exception")
    ELSE IF m.descs[d].subdir # 0
         THEN Try(IF m.descs[m.descs[d].subdir]._relpath = None
                  THEN _init_path(m, m.descs[d].subdir) ELSE m,
                  LAMBDA x : IF x.descs[x.descs[d].subdir]._relpath = None
                             THEN Raise(x, "TypeError")
                             ELSE SetPaths(x, d, join(x.descs[x.descs[d].subdir]._relpath,
                                                      x.descs[d].name)))
    ELSE SetPaths(m, d, m.descs[d].name)

\* the property absolute_path: the value is descs[d]._abspath of the result
absolute_path(m, d) ==
    IF m.descs[d]._abspath = None THEN _init_path(m, d) ELSE m

\* the property relative_path: the value is descs[d]._relpath of the result
relative_path(m, d) ==
    IF m.descs[d]._relpath = None THEN _init_path(m, d) ELSE m

set_root(m, d) ==
    [m EXCEPT !.descs[d].root = 1,
              !.descs[d].mode = IF @ = None THEN m.td.mode ELSE @]

\* lines 353-356 of TempPathDescriptor.set_access
CheckedSetAccess(m, d) ==
    IF "path" \notin DescriptorAttrs THEN Raise(m, "AttributeError")
    ELSE IF m.descs[d].mode = None THEN Raise(m, "Exception")
    ELSE Try(absolute_path(m, d),
             LAMBDA x : set_access(x, x.descs[d]._abspath, x.descs[d].mode))

\* TempPathDescriptor.set_access(mode)
TempPathDescriptor_set_access(m, d, mode) ==
    CheckedSetAccess(
        IF ~Falsy(mode)
        THEN [LogEvent(Log(m, "set_access", d, m.descs[d]._abspath),
                       "set_mode", d, m.descs[d]._abspath, mode)
                 EXCEPT !.descs[d].mode = mode]
        ELSE Log(m, "set_access", d, m.descs[d]._abspath), d)

\* lines 359-367 of create, with the absolute path known
CreateNode(m, d) ==
    IF m.descs[d].path_type \in {"d", "dir"}
    THEN WithFs(m, os_mkdir(m.fs, m.descs[d]._abspath))
    ELSE Try(IF m.descs[d].path_type = "fifo"
             THEN WithFs(m, os_mkfifo(m.fs, m.descs[d]._abspath)) ELSE m,
             LAMBDA x : IF x.descs[d].contents # "" \/ x.descs[d].path_type # "fifo"
                        THEN WithFs(x, open_write(x.fs, x.descs[d]._abspath,
                                                  x.descs[d].contents))
                        ELSE x)

\* TempPathDescriptor.create()
TempPathDescriptor_create(m, d) ==
    Try(Try(absolute_path(m, d), LAMBDA x : CreateNode(x, d)),
        LAMBDA x : Log(x, "create", d, x.descs[d]._abspath))

\* reading desc.absolute_path: ret is the value
get_absolute_path(m, d) ==
    Try(absolute_path(Log(m, "get", d, None), d),
        LAMBDA x : [Log(x, "absolute_path", d, x.descs[d]._abspath)
                       EXCEPT !.ret = x.descs[d]._abspath])

\* reading desc.relative_path: ret is the value
get_relative_path(m, d) ==
    Try(relative_path(Log(m, "get", d, None), d),
        LAMBDA x : [Log(x, "relative_path", d, x.descs[d]._relpath)
                       EXCEPT !.ret = x.descs[d]._relpath])

(***************************************************************************)
(* TempDir                                                                 *)
(***************************************************************************)
\* the names TempDir.__init__ can read: its parameters and the module's
\* globals
InitScope ==
    {"self", "mode", "path_descriptors", "kwargs",
     "errno", "os", "re", "shutil", "stat", "sys", "tempfile",
     "ACCESS", "STDIN", "STDOUT", "STDERR", "get_access", "set_access",
     "check_access", "abspath", "split_path", "filename", "resolve_path",
     "check_path", "check_readable_file", "check_writeable_file",
     "safe_check_path", "safe_check_readable_file",
     "safe_check_writeable_file", "find", "executable_cache",
     "get_executable_path", "TempPathDescriptor", "TempDir"}

NoPaths == [k \in {} |-> 0]

\* self.paths[key] = d
Register(m, key, d) ==
    [m EXCEPT !.td.paths = [k \in DOMAIN @ \cup {key} |-> IF k = key THEN d ELSE @[k]]]

\* lines 414-423 of make_path: the name of the descriptor
GenerateName(m, d, parent) ==
    IF ~Falsy(m.descs[d].name) THEN m
    ELSE IF m.descs[d].path_type \in {"d", "dir"}
         THEN Try(mkdtemp(m, m.descs[d].prefix, m.descs[d].suffix, parent),
                  LAMBDA x : [x EXCEPT !.descs[d].name = basename(StrIndex1(x.ret))])
    ELSE Try(mkstemp(m, m.descs[d].prefix, m.descs[d].suffix, parent),
             LAMBDA x : [x EXCEPT !.descs[d].name = basename(x.ret)])

\* lines 430-433 of make_path: both keys, then the value returned
RegisterPaths(m, d) ==
    Try(Try(Try(absolute_path(m, d),
                LAMBDA x : Register(x, x.descs[d]._abspath, d)),
            LAMBDA x : relative_path(x, d)),
        LAMBDA x : [Register(x, x.descs[d]._relpath, d) EXCEPT !.ret = x.descs[d]._abspath])

\* make_path putting the descriptor in the registry before it applies the
\* permissions
make_path_registering_first(m, d, apply_permissions) ==
    IF m.descs[d].subdir # 0 /\ "path" \notin DescriptorAttrs
    THEN Raise(m, "AttributeError")
    ELSE Try(Try(Try(GenerateName(m, d, IF m.descs[d].subdir # 0
                                        THEN m.descs[m.descs[d].subdir]._abspath
                                        ELSE m.td.path),
                     LAMBDA x : TempPathDescriptor_create(set_root(x, d), d)),
                 LAMBDA x : RegisterPaths(x, d)),
             LAMBDA x : IF apply_permissions
                        THEN TempPathDescriptor_set_access(x, d, None) ELSE x)

\* TempDir.make_path(desc, apply_permissions) for a descriptor object; line
\* 413 reads desc.subdir.path when the descriptor has a parent
TempDir_make_path(m, d, apply_permissions) ==
    IF m.descs[d].subdir # 0 /\ "path" \notin DescriptorAttrs
    THEN Raise(m, "AttributeError")
    ELSE Try(Try(Try(GenerateName(m, d, IF m.descs[d].subdir # 0
                                        THEN m.descs[m.descs[d].subdir]._abspath
                                        ELSE m.td.path),
                     LAMBDA x : TempPathDescriptor_create(set_root(x, d), d)),
                 LAMBDA x : IF apply_permissions
                            THEN TempPathDescriptor_set_access(x, d, None) ELSE x),
             LAMBDA x : RegisterPaths(x, d))

\* the first pass of make_paths, from descriptor i of the batch on
RECURSIVE CreatePass(_, _, _)
CreatePass(m, batch, i) ==
    IF i > Len(batch) \/ m.err # "ok" THEN m
    ELSE CreatePass(TempDir_make_path(m, batch[i], FALSE), batch, i + 1)

\* the second pass of make_paths
RECURSIVE AccessPass(_, _, _)
AccessPass(m, batch, i) ==
    IF i > Len(batch) \/ m.err # "ok" THEN m
    ELSE AccessPass(TempPathDescriptor_set_access(m, batch[i], None), batch, i + 1)

\* make_paths as a single pass that applies each permission while creating
RECURSIVE InterleavedPass(_, _, _)
InterleavedPass(m, batch, i) ==
    IF i > Len(batch) \/ m.err # "ok" THEN m
    ELSE InterleavedPass(TempDir_make_path(m, batch[i], TRUE), batch, i + 1)

make_paths_interleaved(m, batch) == InterleavedPass(m, batch, 1)

\* TempDir.make_paths(*path_descriptors)
TempDir_make_paths(m, batch) ==
    AccessPass(CreatePass(m, batch, 1), batch, 1)

\* lines 388-390 of TempDir.__init__
InitPaths(m, mode, path_descriptors) ==
    Try(IF "paths" \notin InitScope THEN Raise(m, "NameError")
        ELSE IF path_descriptors # <<>> THEN TempDir_make_paths(m, path_descriptors)
        ELSE m,
        LAMBDA x : set_access(x, x.td.path, mode))

\* TempDir.__init__(mode, path_descriptors)
TempDir_init(m, mode, path_descriptors) ==
    Try(Try(mkdtemp(m, "", "", TempRoot),
            LAMBDA x : [x EXCEPT !.td = [path |-> abspath(x.ret), mode |-> mode,
                                         paths |-> NoPaths]]),
        LAMBDA x : InitPaths(x, mode, path_descriptors))

\* TempDir.close()
TempDir_close(m) == WithFs(m, rmtree(m.fs, m.td.path))

\* TempDir.__getitem__(path)
TempDir_getitem(m, key) ==
    IF key \in DOMAIN m.td.paths THEN [m EXCEPT !.item = m.td.paths[key]]
    ELSE Raise(m, "KeyError")

\* TempDir.__contains__(path)
TempDir_contains(t, key) == key \in DOMAIN t.paths

(***************************************************************************)
(* The inputs a caller supplies.                                           *)
(***************************************************************************)
DescModes == {None, <<"r">>}

DirModes == {<<"r", "w", "x">>, <<"r">>}

Contents == {"", "hello"}

PathTypes == {"f", "d", "fifo"}

Affixes == {""}

\* a plain name, a name with a parent-directory segment, an absolute name
\* outside the temporary directory and, once the TempDir has a path, an
\* absolute name inside it
Names ==
    {None, <<"a">>, <<"..", "x">>, <<"/", "tmp", "x">>}
        \cup (IF td.path = None THEN {} ELSE {join(td.path, <<"a">>)})

Batches == {b \in UNION {[1..n -> 1..Len(descs)] : n \in 0..MaxBatch} : TRUE}

Keys == DOMAIN td.paths \cup {<<"a">>}

(***************************************************************************)
(* The state machine.                                                      *)
(***************************************************************************)
\* ret is the path a call returns, item the descriptor a lookup returns and
\* flag the permission bits set_access returns
\* filename is the path an OSError names and cache the executable cache
M == [fs |-> fs, descs |-> descs, td |-> td, log |-> <<>>, err |-> "ok",
      ret |-> None, item |-> 0, flag |-> 0, cnt |-> cnt, filename |-> None,
      cache |-> executable_cache]

NoArgs == [none |-> TRUE]

NoCache == [k \in {} |-> None]

NoCall == [op |-> "", d |-> 0, batch |-> <<>>, key |-> None, apply |-> FALSE,
           log |-> <<>>, ret |-> None, item |-> 0, flag |-> 0, filename |-> None,
           args |-> NoArgs]

\* the state a call leaves; args are the arguments of the call that the
\* other fields do not hold
CommitArgs(m, op, d, batch, key, apply, args) ==
    /\ fs' = m.fs
    /\ descs' = m.descs
    /\ td' = m.td
    /\ err' = m.err
    /\ cnt' = m.cnt
    /\ executable_cache' = m.cache
    /\ hist' = hist \o m.log
    /\ call' = [op |-> op, d |-> d, batch |-> batch, key |-> key, apply |-> apply,
                log |-> m.log, ret |-> m.ret, item |-> m.item, flag |-> m.flag,
                filename |-> m.filename, args |-> args]

CommitCall(m, op, d, batch, key, apply) ==
    CommitArgs(m, op, d, batch, key, apply, NoArgs)

Commit(m, op, d, batch, apply) == CommitCall(m, op, d, batch, None, apply)

Init ==
    /\ fs = [p \in {<<"/">>, <<"/", "tmp">>} |-> Node("d", "", DirCreateBits)]
    /\ descs = <<>>
    /\ td = [path |-> None, mode |-> None, paths |-> NoPaths]
    /\ phase = "new"
    /\ err = "ok"
    /\ call = NoCall
    /\ hist = <<>>
    /\ cnt = 0
    /\ ncalls = 0
    /\ allok = TRUE
    /\ executable_cache = NoCache

\* desc = TempPathDescriptor(name, subdir, mode, suffix, prefix, contents,
\* path_type) with arguments of the given sets
Describe(names, modes, contents_of, types) ==
    \E name \in names, subdir \in 0..Len(descs), mode \in modes,
       affix \in Affixes, contents \in contents_of, path_type \in types :
       LET m == TempPathDescriptor_new(M, name, subdir, mode, affix, affix,
                                       contents, path_type)
       IN  CommitArgs(m, "TempPathDescriptor",
                      IF m.err = "ok" THEN Len(m.descs) ELSE 0, <<>>, None, FALSE,
                      [name |-> name, subdir |-> subdir, mode |-> mode,
                       contents |-> contents, path_type |-> path_type])

NewDescriptor ==
    /\ phase = "new"
    /\ Len(descs) < MaxDescs
    /\ Describe(Names, DescModes, Contents, PathTypes)
    /\ UNCHANGED <<phase, ncalls, allok>>

\* TempDir(mode, path_descriptors): the constructor call of a with statement
Construct ==
    /\ phase = "new"
    /\ \E mode \in DirModes, batch \in Batches :
          LET m == TempDir_init(M, mode, batch) IN
          /\ Commit(m, "TempDir", 0, batch, FALSE)
          /\ phase' = IF m.err = "ok" THEN "constructed" ELSE "raised"
    /\ UNCHANGED <<ncalls, allok>>

\* TempDir.__enter__ on the object the constructor worked on: the caller of a
\* constructor that raised holds the object only through the exception's
\* traceback or an overriding subclass
Enter ==
    /\ phase \in {"constructed", "raised"}
    /\ td.path # None
    /\ Commit(M, "__enter__", 0, <<>>, FALSE)
    /\ phase' = "entered"
    /\ UNCHANGED <<ncalls, allok>>

\* the with statement ends where the constructor's exception leaves it
Propagate ==
    /\ phase = "raised"
    /\ phase' = "exited"
    /\ UNCHANGED <<fs, descs, td, err, call, hist, cnt, ncalls, allok, executable_cache>>

AfterCall(m) == IF m.err = "Blocked" THEN "hung" ELSE "entered"

\* tempdir.make_path(desc, apply_permissions)
MakePath ==
    /\ phase = "entered"
    /\ ncalls < MaxCalls
    /\ \E d \in 1..Len(descs), apply \in BOOLEAN :
          LET m == TempDir_make_path(M, d, apply) IN
          /\ Commit(m, "make_path", d, <<>>, apply)
          /\ phase' = AfterCall(m)
          /\ allok' = (allok /\ m.err = "ok")
    /\ ncalls' = ncalls + 1

\* tempdir.make_path(apply_permissions, **kwargs): the descriptor is made
\* from the keyword arguments
MakePathKw ==
    /\ phase = "entered"
    /\ ncalls < MaxCalls
    /\ Len(descs) < MaxDescs
    /\ \E name \in Names, subdir \in 0..Len(descs), mode \in DescModes,
          affix \in Affixes, contents \in Contents, path_type \in PathTypes,
          apply \in BOOLEAN :
          LET m0 == TempPathDescriptor_new(M, name, subdir, mode, affix, affix,
                                           contents, path_type)
              m == Try(m0, LAMBDA x : TempDir_make_path(x, Len(x.descs), apply))
          IN  /\ Commit(m, "make_path", IF m0.err = "ok" THEN Len(m0.descs) ELSE 0,
                        <<>>, apply)
              /\ phase' = AfterCall(m)
              /\ allok' = (allok /\ m.err = "ok")
    /\ ncalls' = ncalls + 1

\* tempdir.make_paths(*path_descriptors)
MakePaths ==
    /\ phase = "entered"
    /\ ncalls < MaxCalls
    /\ \E batch \in Batches :
          LET m == TempDir_make_paths(M, batch) IN
          /\ Commit(m, "make_paths", 0, batch, FALSE)
          /\ phase' = AfterCall(m)
          /\ allok' = (allok /\ m.err = "ok")
    /\ ncalls' = ncalls + 1

\* tempdir[key]
GetItem ==
    /\ phase = "entered"
    /\ ncalls < MaxCalls
    /\ \E key \in Keys :
          CommitCall(TempDir_getitem(M, key), "__getitem__", 0, <<>>, key, FALSE)
    /\ ncalls' = ncalls + 1
    /\ UNCHANGED <<phase, allok>>

\* TempDir.__exit__: the with statement is left, normally or by an exception
\* of its body
Exit ==
    /\ phase = "entered"
    /\ Commit(TempDir_close(M), "__exit__", 0, <<>>, FALSE)
    /\ phase' = "exited"
    /\ UNCHANGED <<ncalls, allok>>

Next ==
    \/ NewDescriptor
    \/ Construct
    \/ Enter
    \/ Propagate
    \/ MakePath
    \/ MakePathKw
    \/ MakePaths
    \/ GetItem
    \/ Exit

Spec == Init /\ [][Next]_vars

(***************************************************************************)
(* The descriptor on its own: a caller that makes chains of descriptors    *)
(* and calls their methods itself, on the TempDir it holds.                *)
(***************************************************************************)
ChainNames == {None, <<"a">>}

ChainModes == {None, <<"r">>, <<"w">>}

\* chains of directory descriptors, each with or without a mode
DescribeChain ==
    /\ phase = "entered"
    /\ Len(descs) < MaxChain
    /\ Describe({<<"a">>}, ChainModes, {""}, {"d"})
    /\ UNCHANGED <<phase, ncalls, allok>>

\* directory descriptors with or without a name
DescribeNamed ==
    /\ phase = "entered"
    /\ Len(descs) < MaxDescs
    /\ Describe(ChainNames, {None}, {""}, {"d"})
    /\ UNCHANGED <<phase, ncalls, allok>>

NewModes == {None, <<"w">>}

\* desc.set_root(tempdir), one of at most max calls
DescriptorSetRoot(max) ==
    /\ phase = "entered"
    /\ ncalls < max
    /\ \E d \in 1..Len(descs) : Commit(set_root(M, d), "set_root", d, <<>>, FALSE)
    /\ ncalls' = ncalls + 1
    /\ UNCHANGED <<phase, allok>>

\* desc.absolute_path
DescriptorAbsolutePath ==
    /\ phase = "entered"
    /\ ncalls < MaxOps
    /\ \E d \in 1..Len(descs) :
          Commit(get_absolute_path(M, d), "absolute_path", d, <<>>, FALSE)
    /\ ncalls' = ncalls + 1
    /\ UNCHANGED <<phase, allok>>

\* desc.relative_path
DescriptorRelativePath ==
    /\ phase = "entered"
    /\ ncalls < MaxOps
    /\ \E d \in 1..Len(descs) :
          Commit(get_relative_path(M, d), "relative_path", d, <<>>, FALSE)
    /\ ncalls' = ncalls + 1
    /\ UNCHANGED <<phase, allok>>

\* desc.create()
DescriptorCreate ==
    /\ phase = "entered"
    /\ ncalls < MaxOps
    /\ \E d \in 1..Len(descs) :
          Commit(TempPathDescriptor_create(M, d), "create", d, <<>>, FALSE)
    /\ ncalls' = ncalls + 1
    /\ UNCHANGED <<phase, allok>>

\* desc.set_access(mode), one of at most max calls
DescriptorSetAccess(max) ==
    /\ phase = "entered"
    /\ ncalls < max
    /\ \E d \in 1..Len(descs), mode \in NewModes :
          CommitArgs(TempPathDescriptor_set_access(M, d, mode), "set_access", d,
                     <<>>, None, FALSE, [mode |-> mode])
    /\ ncalls' = ncalls + 1
    /\ UNCHANGED <<phase, allok>>

\* mode inheritance: chains of descriptors, attached and given modes
ModeNext ==
    \/ Construct
    \/ Enter
    \/ DescribeChain
    \/ DescriptorSetRoot(MaxCalls)
    \/ DescriptorSetAccess(MaxCalls)

ModeSpec == Init /\ [][ModeNext]_vars

\* the methods of a descriptor: attaching, reading the paths, creating the
\* node and setting its permissions
DescNext ==
    \/ Construct
    \/ Enter
    \/ DescribeNamed
    \/ DescriptorSetRoot(MaxOps)
    \/ DescriptorAbsolutePath
    \/ DescriptorRelativePath
    \/ DescriptorCreate
    \/ DescriptorSetAccess(MaxOps)

DescSpec == Init /\ [][DescNext]_vars

\* the constructor of descriptors over every node type
AllPathTypes == {"f", "file", "d", "dir", "fifo"}

NewDescriptorAny ==
    /\ Len(descs) < MaxDescs
    /\ Describe(Names, DescModes, Contents, AllPathTypes)
    /\ UNCHANGED <<phase, ncalls, allok>>

CtorSpec == Init /\ [][NewDescriptorAny]_vars

(***************************************************************************)
(* The functions of the module, called on a filesystem that has a          *)
(* directory of executables, a file, a directory and missing paths.        *)
(***************************************************************************)
MaxPathCalls == 3

PathsFs ==
    [p \in {<<"/">>, <<"/", "tmp">>, <<"/", "bin">>, <<"/", "tmp", "d">>}
        |-> Node("d", "", DirCreateBits)]
    @@ (<<"/", "bin", "x">> :> Node("f", "", DirCreateBits))
    @@ (<<"/", "tmp", "a">> :> Node("f", "", FileCreateBits))

CheckedPaths ==
    {STDOUT, STDERR, <<"/", "bin", "x">>, <<"a">>, <<"/", "tmp", "d">>,
     <<"/", "tmp", "n">>, <<"/", "tmp", "n", "m", "f">>, <<"/", "tmp", "a", "f">>}

AccessModes == {<<"r">>, <<"w">>, <<"a">>, <<"x">>, <<"w", "r">>, <<"q">>}

Accesses ==
    {AccessStr(mode) : mode \in AccessModes}
    \cup {AccessInt(flag) : flag \in {0, X_OK, W_OK, R_OK, R_OK + W_OK}}

PathKinds == {"", "f", "d"}

SafeAccesses == {AccessNone, AccessStr(<<"r">>), AccessStr(<<"w">>), AccessStr(<<"q">>)}

ChmodPaths == {<<"/", "bin", "x">>, <<"/", "tmp", "a">>, <<"/", "tmp", "n">>}

SetModes ==
    {<<>>, <<"r">>, <<"w">>, <<"a">>, <<"x">>, <<"r", "w">>, <<"w", "a">>,
     <<"r", "w", "x">>, <<"r", "q">>, <<"q", "r">>}

Executables ==
    {<<"x">>, <<"/", "bin", "x">>, <<"/", "tmp", "x">>, <<"a">>, <<"/", "tmp", "a">>}

PathsInit ==
    /\ fs = PathsFs
    /\ descs = <<>>
    /\ td = [path |-> None, mode |-> None, paths |-> NoPaths]
    /\ phase = "paths"
    /\ err = "ok"
    /\ call = NoCall
    /\ hist = <<>>
    /\ cnt = 0
    /\ ncalls = 0
    /\ allok = TRUE
    /\ executable_cache = NoCache

\* the state a call of a module function leaves
CommitPaths(m, op, path, args) ==
    /\ ncalls < MaxPathCalls
    /\ fs' = m.fs
    /\ err' = m.err
    /\ executable_cache' = m.cache
    /\ ncalls' = ncalls + 1
    /\ call' = [op |-> op, d |-> 0, batch |-> <<>>, key |-> path, apply |-> FALSE,
                log |-> m.log, ret |-> m.ret, item |-> m.item, flag |-> m.flag,
                filename |-> m.filename, args |-> args]
    /\ UNCHANGED <<descs, td, phase, hist, cnt, allok>>

CheckAccess ==
    \E path \in CheckedPaths, access \in Accesses :
        CommitPaths(check_access(M, path, access), "check_access", path,
                    [access |-> access])

SafeCheckPath ==
    \E path \in CheckedPaths, ptype \in PathKinds, access \in SafeAccesses :
        CommitPaths(safe_check_path(M, path, ptype, access), "safe_check_path",
                    path, [ptype |-> ptype, access |-> access])

SafeCheckReadableFile ==
    \E path \in CheckedPaths :
        CommitPaths(safe_check_readable_file(M, path), "safe_check_readable_file",
                    path, NoArgs)

SafeCheckWriteableFile ==
    \E path \in CheckedPaths :
        CommitPaths(safe_check_writeable_file(M, path), "safe_check_writeable_file",
                    path, NoArgs)

CheckWriteableFile ==
    \E path \in CheckedPaths, mkdirs \in BOOLEAN :
        CommitPaths(check_writeable_file(M, path, mkdirs), "check_writeable_file",
                    path, [mkdirs |-> mkdirs])

SetAccess ==
    \E path \in ChmodPaths, mode \in SetModes :
        CommitPaths(set_access(M, path, mode), "set_access", path, [mode |-> mode])

GetExecutablePath ==
    \E executable \in Executables :
        CommitPaths(get_executable_path(M, executable), "get_executable_path",
                    executable, NoArgs)

PathsNext ==
    \/ CheckAccess
    \/ SafeCheckPath
    \/ SafeCheckReadableFile
    \/ SafeCheckWriteableFile
    \/ CheckWriteableFile
    \/ SetAccess
    \/ GetExecutablePath

PathsSpec == PathsInit /\ [][PathsNext]_vars

(***************************************************************************)
(* Reading the events of calls.                                            *)
(***************************************************************************)
IsCreate(e) == e.ev = "create"

IsPermission(e) == e.ev \in {"set_access", "chmod"}

\* the descriptors of the events of a log, in order
RECURSIVE DescsOf(_)
DescsOf(log) == IF log = <<>> THEN <<>> ELSE <<Head(log).d>> \o DescsOf(Tail(log))

Creates(log) == SelectSeq(log, IsCreate)

Count(log, ev, d) == Cardinality({i \in 1..Len(log) : log[i].ev = ev /\ log[i].d = d})

Materialized == {d \in 1..Len(descs) : Count(hist, "create", d) > 0}

(***************************************************************************)
(* C1: within one make_paths call no permission of a descriptor of the     *)
(* batch is applied before every descriptor of the batch has been created: *)
(* the creations come first, in input order, then the permission calls, in *)
(* input order.                                                            *)
(***************************************************************************)
C1_CreateBeforePermission ==
    call.op = "make_paths" =>
        LET log == call.log
            perms == SelectSeq(log, LAMBDA e : e.ev = "set_access")
        IN  /\ \A i, j \in 1..Len(log) :
                   IsPermission(log[i]) /\ IsCreate(log[j]) => j < i
            /\ (\E i \in 1..Len(log) : IsPermission(log[i]))
                   => DescsOf(Creates(log)) = call.batch
            /\ IsPrefix(DescsOf(Creates(log)), call.batch)
            /\ IsPrefix(DescsOf(perms), call.batch)

\* a batch of two different descriptors was created and the permission pass
\* has started on it
C1_Witness ==
    /\ call.op = "make_paths"
    /\ Len(call.batch) = 2
    /\ call.batch[1] # call.batch[2]
    /\ DescsOf(Creates(call.log)) = call.batch
    /\ \E i \in 1..Len(call.log) : call.log[i].ev = "set_access"

(***************************************************************************)
(* C2: make_paths(D, F), D a directory descriptor with mode "r" and F a    *)
(* file descriptor with parent D and contents "hello", raises nothing and  *)
(* leaves both created, F holding "hello" and D read-only.                 *)
(***************************************************************************)
IsReadOnlyTreeBatch(batch) ==
    /\ Len(batch) = 2
    /\ descs[batch[1]].path_type = "d"
    /\ descs[batch[1]].mode = <<"r">>
    /\ descs[batch[1]].subdir = 0
    /\ descs[batch[2]].path_type = "f"
    /\ descs[batch[2]].subdir = batch[1]
    /\ descs[batch[2]].contents = "hello"

C2_ReadOnlyTreePopulated ==
    (call.op = "make_paths" /\ IsReadOnlyTreeBatch(call.batch)) =>
        LET D == descs[call.batch[1]]
            F == descs[call.batch[2]]
        IN  /\ err = "ok"
            /\ D._abspath \in DOMAIN fs
            /\ F._abspath \in DOMAIN fs
            /\ fs[F._abspath].content = "hello"
            /\ fs[D._abspath].perm = S_IREAD

(***************************************************************************)
(* C3: once the with statement of a TempDir is over, however it ended, the *)
(* temporary directory no longer exists.                                   *)
(***************************************************************************)
C3_TeardownGuarantee ==
    phase = "exited" => td.path \notin DOMAIN fs

(***************************************************************************)
(* C4: the constructor raises nothing and leaves a TempDir whose path is   *)
(* an existing directory with the permissions of its mode and whose        *)
(* registry has exactly the keys of the descriptors given.                 *)
(***************************************************************************)
KeysOf(batch) ==
    UNION {{descs[batch[i]]._abspath, descs[batch[i]]._relpath} : i \in 1..Len(batch)}

C4_ConstructorSucceeds ==
    call.op = "TempDir" =>
        /\ err = "ok"
        /\ td.path \in DOMAIN fs
        /\ fs[td.path].kind = "d"
        /\ fs[td.path].perm = mode_flag(td.mode, 0)
        /\ DOMAIN td.paths = KeysOf(call.batch)

(***************************************************************************)
(* C5: as long as no make_path or make_paths call has raised, every        *)
(* created descriptor has its absolute and its relative path as keys of    *)
(* the registry, and both keys give the same descriptor.                   *)
(***************************************************************************)
C5_DualKeyLookup ==
    allok =>
        \A d \in Materialized :
            /\ TempDir_contains(td, descs[d]._abspath)
            /\ TempDir_contains(td, descs[d]._relpath)
            /\ td.paths[descs[d]._abspath] = td.paths[descs[d]._relpath]

(***************************************************************************)
(* C6: the absolute path of every descriptor in the registry starts with   *)
(* the path of the TempDir.                                                *)
(***************************************************************************)
C6_RegistryUnderRoot ==
    \A k \in DOMAIN td.paths : IsPrefix(td.path, descs[td.paths[k]]._abspath)

(***************************************************************************)
(* C7: a constructor given descriptors applies the mode of the temporary   *)
(* directory after it has created every one of them, so that the directory *)
(* holds them whatever its mode.                                           *)
(***************************************************************************)
C7_RootPermissionLast ==
    (call.op = "TempDir" /\ call.batch # <<>>) =>
        /\ DescsOf(Creates(call.log)) = call.batch
        /\ \E i \in 1..Len(call.log) :
              /\ call.log[i].ev = "chmod"
              /\ call.log[i].path = td.path
              /\ \A j \in 1..Len(call.log) : IsCreate(call.log[j]) => j < i

(***************************************************************************)
(* C8: over all calls a descriptor is created at most once, and a          *)
(* make_path call that applies permissions, like every make_paths call,    *)
(* changes the permissions of each of its descriptors once, after creating *)
(* it.                                                                     *)
(***************************************************************************)
PermissionApplied(log, d) ==
    \E i, j \in 1..Len(log) :
        /\ i < j
        /\ log[i].ev = "create" /\ log[i].d = d
        /\ log[j].ev = "chmod" /\ log[j].path = descs[d]._abspath
        /\ \A k \in 1..Len(log) :
              (log[k].ev = "chmod" /\ log[k].path = descs[d]._abspath) => k = j

C8_MaterializedOnce ==
    /\ \A d \in 1..Len(descs) : Count(hist, "create", d) <= 1
    /\ (call.op = "make_path" /\ call.apply /\ call.d # 0)
           => PermissionApplied(hist, call.d)
    /\ call.op = "make_paths"
           => \A i \in 1..Len(call.batch) : PermissionApplied(hist, call.batch[i])

(***************************************************************************)
(* C9: when make_path generates the name of a file or directory            *)
(* descriptor, the call creates one node, the one at the TempDir's path    *)
(* joined with the descriptor's relative path.                             *)
(***************************************************************************)
NodesMade(log) ==
    {log[i].path : i \in {k \in 1..Len(log) : log[k].ev \in {"mkdtemp", "mkstemp", "create"}}}

C9_GeneratedNameRoundTrip ==
    (/\ call.op = "make_path"
     /\ call.d # 0
     /\ \E i \in 1..Len(call.log) : call.log[i].ev \in {"mkdtemp", "mkstemp"}
     /\ descs[call.d].path_type \in {"f", "file", "d", "dir"}) =>
        /\ descs[call.d]._relpath # None
        /\ join(td.path, descs[call.d]._relpath) \in DOMAIN fs
        /\ NodesMade(call.log) = {join(td.path, descs[call.d]._relpath)}

(***************************************************************************)
(* C10: a make_paths batch that names a child before its not yet created   *)
(* parent directory descriptor raises FileNotFoundError.                   *)
(***************************************************************************)
C10_ParentMissingNotFound ==
    (/\ call.op = "make_paths"
     /\ Len(call.batch) = 2
     /\ descs[call.batch[1]].subdir = call.batch[2]
     /\ descs[call.batch[2]].path_type \in {"d", "dir"}
     /\ Count(hist, "create", call.batch[2]) = 0) =>
        err = "FileNotFoundError"

(***************************************************************************)
(* Reading the modes given to descriptors from the events.                 *)
(***************************************************************************)
\* the event that constructed descriptor d
InitIndex(d) == CHOOSE i \in 1..Len(hist) : hist[i].ev = "init" /\ hist[i].d = d

\* the events before event k that gave descriptor a a mode: its constructor
\* and the set_access(mode) calls on it
ModeEvents(a, k) ==
    {i \in 1..(k - 1) : hist[i].d = a /\ hist[i].ev \in {"init", "set_mode"}}

\* the mode last given to descriptor a before event k, None when none was
ExplicitMode(a, k) ==
    IF ModeEvents(a, k) = {} THEN None
    ELSE hist[CHOOSE i \in ModeEvents(a, k) : \A j \in ModeEvents(a, k) : j <= i].mode

Now == Len(hist) + 1

\* own mode, else that of the nearest ancestor that has been given one
RECURSIVE InheritedMode(_)
InheritedMode(d) ==
    IF ExplicitMode(d, Now) # None THEN ExplicitMode(d, Now)
    ELSE IF descs[d].subdir # 0 THEN InheritedMode(descs[d].subdir)
    ELSE td.mode

\* the mode descriptor a had been given or had inherited before event k
RECURSIVE ModeAsOf(_, _)
ModeAsOf(a, k) ==
    IF ExplicitMode(a, k) # None THEN ExplicitMode(a, k)
    ELSE IF descs[a].subdir # 0 THEN ModeAsOf(descs[a].subdir, InitIndex(a))
    ELSE None

Attached == {d \in 1..Len(descs) : descs[d].root # 0}

(***************************************************************************)
(* C11 as stated: the mode of an attached descriptor is the mode given to  *)
(* it if any, otherwise the mode given to its nearest ancestor that has    *)
(* been given one, otherwise the mode of the TempDir, whatever the depth   *)
(* of the chain.                                                           *)
(***************************************************************************)
C11_ModeInheritance ==
    \A d \in Attached : descs[d].mode = InheritedMode(d)

(***************************************************************************)
(* C11 as amended: the mode of an attached descriptor is the mode given to *)
(* it if any, otherwise the mode its parent had when the descriptor was    *)
(* constructed (given to the parent or inherited by it in the same way),   *)
(* otherwise the mode of the TempDir, whatever the depth of the chain; a   *)
(* mode given to an ancestor after the descriptor was constructed is not   *)
(* inherited.                                                              *)
(***************************************************************************)
C11_ModeInheritedAtConstruction ==
    \A d \in Attached :
        descs[d].mode = IF ModeAsOf(d, Now) # None THEN ModeAsOf(d, Now) ELSE td.mode

\* an attached descriptor without a mode of its own has the mode of its
\* grandparent, its parent having been given none
C11_Witness ==
    \E d \in Attached :
        /\ ExplicitMode(d, Now) = None
        /\ descs[d].subdir # 0
        /\ ExplicitMode(descs[d].subdir, Now) = None
        /\ descs[descs[d].subdir].subdir # 0
        /\ ExplicitMode(descs[descs[d].subdir].subdir, Now) # None
        /\ descs[d].mode = ExplicitMode(descs[descs[d].subdir].subdir, Now)
        /\ descs[d].mode # td.mode

(***************************************************************************)
(* Reading the paths of descriptors.                                       *)
(***************************************************************************)
PathReads == {"absolute_path", "relative_path"}

\* the descriptor and all its ancestors are attached
RECURSIVE ChainAttached(_)
ChainAttached(d) ==
    /\ descs[d].root # 0
    /\ descs[d].subdir # 0 => ChainAttached(descs[d].subdir)

\* the descriptor and all its ancestors have names
RECURSIVE ChainNamed(_)
ChainNamed(d) ==
    /\ descs[d].name # None
    /\ descs[d].subdir # 0 => ChainNamed(descs[d].subdir)

PathsUnset(d) == descs[d]._abspath = None /\ descs[d]._relpath = None

\* the path the last call read
PathRead == IF call.op = "absolute_path" THEN descs[call.d]._abspath
            ELSE descs[call.d]._relpath

\* every read of the same path of the same descriptor gave the same value
ReadsAgree ==
    \A i, j \in 1..Len(hist) :
        (hist[i].ev \in PathReads /\ hist[i].ev = hist[j].ev /\ hist[i].d = hist[j].d)
            => hist[i].path = hist[j].path

\* event i is a read that raised: no value follows it
FailedRead(i) ==
    /\ hist[i].ev = "get"
    /\ i = Len(hist) \/ hist[i + 1].ev \notin PathReads

(***************************************************************************)
(* C12 as stated: reading absolute_path or relative_path of a descriptor   *)
(* that is not attached, or that has an ancestor that is not, raises the   *)
(* usage error and leaves both memoized paths unset; once the descriptor   *)
(* and its ancestors are attached the read succeeds; and every read of a   *)
(* path gives the value the first one gave.                                *)
(***************************************************************************)
C12_LazyPaths ==
    /\ call.op \in PathReads =>
          /\ ~ChainAttached(call.d) => (err = "Exception" /\ PathsUnset(call.d))
          /\ ChainAttached(call.d) =>
                (err = "ok" /\ call.ret = PathRead /\ call.ret # None)
    /\ ReadsAgree

(***************************************************************************)
(* C12 as amended: as stated, except that the read succeeds once the       *)
(* descriptor and its ancestors are attached and all of them have names;   *)
(* while one of them has no name the read raises TypeError and leaves both *)
(* memoized paths unset.                                                   *)
(***************************************************************************)
C12_LazyPathsOfNamed ==
    /\ call.op \in PathReads =>
          /\ ~ChainAttached(call.d) => (err = "Exception" /\ PathsUnset(call.d))
          /\ (ChainAttached(call.d) /\ ChainNamed(call.d)) =>
                (err = "ok" /\ call.ret = PathRead /\ call.ret # None)
          /\ (ChainAttached(call.d) /\ ~ChainNamed(call.d)) =>
                (err = "TypeError" /\ PathsUnset(call.d))
    /\ ReadsAgree

\* a read of a path of a descriptor with a parent succeeds after a read of
\* it that raised
C12_Witness ==
    /\ call.op \in PathReads
    /\ err = "ok"
    /\ descs[call.d].subdir # 0
    /\ \E i \in 1..Len(hist) : hist[i].d = call.d /\ FailedRead(i)

(***************************************************************************)
(* C13: TempPathDescriptor(...) raises ValueError exactly when contents is *)
(* not empty and the node type is not a regular file, "f" or "file"; it    *)
(* raises nothing else.                                                    *)
(***************************************************************************)
C13_ContentsOnlyForFiles ==
    call.op = "TempPathDescriptor" =>
        /\ err \in {"ok", "ValueError"}
        /\ err = "ValueError" <=>
              (call.args.contents # "" /\ call.args.path_type \notin {"f", "file"})

(***************************************************************************)
(* C14: desc.set_access(mode) on an attached descriptor that has a mode,   *)
(* or is given one, and whose node exists raises nothing, stores the mode  *)
(* given, if any, and sets the permissions of the node at absolute_path    *)
(* from the stored mode; on a descriptor that is not attached or has no    *)
(* mode it raises the usage error.                                         *)
(***************************************************************************)
C14_DescriptorSetAccess ==
    call.op = "set_access" =>
        /\ (/\ ChainAttached(call.d)
            /\ descs[call.d].mode # None
            /\ descs[call.d]._abspath \in DOMAIN fs) =>
               /\ err = "ok"
               /\ call.args.mode # None => descs[call.d].mode = call.args.mode
               /\ fs[descs[call.d]._abspath].perm = mode_flag(descs[call.d].mode, 0)
        /\ (descs[call.d].root = 0 \/ descs[call.d].mode = None) => err = "Exception"

(***************************************************************************)
(* C19: a make_path call that raises leaves the registry of the TempDir as *)
(* it was before the call, at whatever step it raised.                     *)
(***************************************************************************)
C19_FailedMakePathKeepsRegistry ==
    [][(call'.op = "make_path" /\ ncalls' = ncalls + 1 /\ err' # "ok")
           => td'.paths = td.paths]_vars

\* a make_path call raised after it had created the node of its descriptor,
\* on a TempDir whose registry holds other descriptors
C19_Witness ==
    /\ call.op = "make_path"
    /\ call.d # 0
    /\ err \notin {"ok", "Blocked"}
    /\ \E i \in 1..Len(call.log) : call.log[i].ev = "create" /\ call.log[i].d = call.d
    /\ DOMAIN td.paths # {}
    /\ \A k \in DOMAIN td.paths : td.paths[k] # call.d

\* the events of the last call that are of the given kind
CallEvents(ev) == {i \in 1..Len(call.log) : call.log[i].ev = ev}

\* an access argument that names an access: a flag, or a string that has
\* one of the characters r, w, a, x
NamesAccess(access) ==
    \/ access.kind = "int"
    \/ access.kind = "str" /\ \E c \in {"r", "w", "a", "x"} : InMode(c, access.mode)

\* the last call was check_access(path, access) with an access that names one
CheckedAccess(path) ==
    /\ call.op = "check_access"
    /\ call.key = path
    /\ NamesAccess(call.args.access)

\* C15: check_access on the output-stream token succeeds exactly when the
\* access is read or write and otherwise fails with a permission error that
\* names the token; on the error-stream token it succeeds exactly when the
\* access is write and otherwise fails with a permission error; os.access is
\* consulted in neither case.
C15_SentinelAccess ==
    /\ CheckedAccess(STDOUT) =>
          /\ err = IF call.flag \in {R_OK, W_OK} THEN "ok" ELSE "PermissionError"
          /\ err = "PermissionError" => call.filename = STDOUT
          /\ CallEvents("os.access") = {}
    /\ CheckedAccess(STDERR) =>
          /\ err = IF call.flag = W_OK THEN "ok" ELSE "PermissionError"
          /\ err = "PermissionError" => call.filename = STDERR
          /\ CallEvents("os.access") = {}

C15_Witness ==
    /\ CheckedAccess(STDERR)
    /\ call.args.access = AccessStr(<<"r">>)
    /\ err = "PermissionError"
    /\ call.filename = STDERR

\* the result of the check a safe variant wraps, on the state before the call
Underlying(op, path, args) ==
    IF op = "safe_check_path" THEN check_path(M, path, args.ptype, args.access)
    ELSE IF op = "safe_check_readable_file" THEN check_readable_file(M, path)
    ELSE check_writeable_file(M, path, TRUE)

SafeOps == {"safe_check_path", "safe_check_readable_file", "safe_check_writeable_file"}

\* NotFound, WrongType and PermissionDenied
Environmental ==
    {"FileNotFoundError", "IsADirectoryError", "NotADirectoryError", "PermissionError"}

\* what a safe variant gives for the result r of the check it wraps
SafeOutcome(r, e, ret) ==
    /\ r.err \in Environmental => e = "ok" /\ ret = None
    /\ r.err = "ok" => e = "ok" /\ ret = r.ret
    /\ r.err = "ValueError" => e = "ValueError"

PermissionBits(mode) ==
    (IF InMode("r", mode) THEN S_IREAD ELSE 0)
    + (IF InMode("w", mode) \/ InMode("a", mode) THEN S_IWRITE ELSE 0)
    + (IF InMode("x", mode) THEN S_IEXEC ELSE 0)

Recognized(mode) == \A i \in 1..Len(mode) : mode[i] \in {"r", "w", "a", "x"}

\* C17: set_access(path, mode) on an existing path sets its permission bits
\* to the OR of the bits of the characters of mode and returns that value,
\* changing nothing else; when a character of mode is not recognized, at
\* whatever position, it raises ValueError and the filesystem is unchanged.
C17_SetAccess ==
    [][(call'.op = "set_access" /\ ncalls' = ncalls + 1) =>
          IF Recognized(call'.args.mode)
          THEN call'.key \in DOMAIN fs =>
                  /\ err' = "ok"
                  /\ fs' = [fs EXCEPT ![call'.key].perm = PermissionBits(call'.args.mode)]
                  /\ call'.flag = PermissionBits(call'.args.mode)
          ELSE err' = "ValueError" /\ fs' = fs]_vars

C17_Witness ==
    /\ call.op = "set_access"
    /\ call.args.mode = <<"w", "a">>
    /\ err = "ok"
    /\ fs[call.key].perm = S_IWRITE
    /\ call.flag = S_IWRITE

\* the last step was check_writeable_file(path, mkdirs) with mkdirs false on
\* a path that did not exist and whose parent directory did not exist
NoMkdirsStep ==
    /\ call'.op = "check_writeable_file"
    /\ ncalls' = ncalls + 1
    /\ ~call'.args.mkdirs
    /\ ~exists(fs, call'.key)
    /\ ~exists(fs, dirname(abspath(call'.key)))

\* C18: check_writeable_file(path, mkdirs) on a path that does not exist and
\* whose parent directory does not exist creates the missing directories only
\* if mkdirs is true; with mkdirs false the filesystem is left unchanged.
C18_MkdirsFalseCreatesNothing == [][NoMkdirsStep => fs' = fs]_vars


\* the step is a call get_executable_path(executable) whose base name has an
\* entry in the cache
CachedLookup ==
    /\ call'.op = "get_executable_path"
    /\ ncalls' = ncalls + 1
    /\ basename(call'.key) \in DOMAIN executable_cache

\* C20: an entry of executable_cache, once stored for a base name, is never
\* changed or removed, and a call of get_executable_path whose argument has
\* that base name returns the stored result (None included) without an event
\* on the filesystem, whatever the directory of the argument and whatever
\* has changed on disk since.
C20_ExecutableCache ==
    [][/\ \A k \in DOMAIN executable_cache :
             k \in DOMAIN executable_cache' /\ executable_cache'[k] = executable_cache[k]
       /\ CachedLookup =>
             /\ err' = "ok"
             /\ call'.ret = executable_cache[basename(call'.key)]
             /\ call'.log = <<>>
             /\ fs' = fs]_vars

\* a call with another directory part returned the cached path although the
\* file at that path is no longer executable
C20_Witness ==
    /\ call.op = "get_executable_path"
    /\ call.key = <<"/", "tmp", "x">>
    /\ call.log = <<>>
    /\ call.ret = <<"/", "bin", "x">>
    /\ ~os_access(fs, <<"/", "bin", "x">>, X_OK)
====
